---- MODULE Spec2Model ----
(***************************************************************************)
(* The BGE debugger overlay (src/GUI_FULL.py, src/gui_basic.py): a window  *)
(* that polls the live scene on a timer, lists the scene's objects behind  *)
(* a search bar, presents the selected object in six property tabs, and    *)
(* forwards playback commands to the engine.                               *)
(*                                                                         *)
(* Abstractions.  Text is a sequence of one-character strings.  A float is *)
(* a fixed-point integer counting units of 10^-(digits+1).  The object     *)
(* list is the content of self.object_list_layout (button text, explicit   *)
(* visibility); a tab is the content of its form layout (rows).  The       *)
(* toolkit's widget parenting and deferred deletion are not modelled.      *)
(* Every handler is one atomic step; what the environment may do to it     *)
(* (the scene poll raising, a presenter raising, the engine call raising)  *)
(* is an input of the step, recorded in `last` with what the handler       *)
(* reported, forwarded and let escape.                                     *)
(***************************************************************************)
EXTENDS Integers, Sequences, FiniteSets, TLC

VARIABLES
    variant,          \* which script runs: "full" (GUI_FULL.py) or "basic" (gui_basic.py)
    scene,            \* bge.logic.getCurrentScene().objects: the live objects, in order
    search_text,      \* self.search_bar.text()
    object_list,      \* self.object_list_layout: the buttons, in order
    selected_object,  \* self.selected_object
    tabs,             \* self.tabs: the rows of the six form layouts
    engine,           \* the engine state the playback calls write
    mouse_visible,    \* the module global mouse_visible
    last,             \* the handler that ran last: its inputs and its outcome
    owner,            \* cont.owner: the properties start_gui keeps on the game object
    running,          \* the handlers in progress, each waiting in show_error's exec_()
    sample,           \* a value handed to truncate, and what has come back
    twin              \* a second window over the same scene, while the first acts

vars == <<variant, scene, search_text, object_list, selected_object, tabs,
          engine, mouse_visible, last, owner, running, sample, twin>>

display == <<search_text, object_list, selected_object, tabs>>

----------------------------------------------------------------------------
(* Text *)

\* Longest search text the user types.
MaxSearchLen == 1

\* Longest text the user leaves in the FPS / game speed inputs.
MaxInputLen == 2

\* str.lower() on one character.
LowerChar(c) ==
    CASE c = "A" -> "a"
      [] c = "B" -> "b"
      [] OTHER -> c

\* str.lower()
lower(s) == [i \in 1..Len(s) |-> LowerChar(s[i])]

\* Python's `sub in s` on strings.
Contains(sub, s) ==
    \E i \in 0..(Len(s) - Len(sub)) :
        \A j \in 1..Len(sub) : s[i + j] = sub[j]

\* All texts over an alphabet, up to a length.
RECURSIVE TextsUpTo(_, _)
TextsUpTo(alphabet, n) ==
    IF n = 0 THEN {<<>>}
    ELSE LET shorter == TextsUpTo(alphabet, n - 1)
         IN  shorter \cup {Append(t, c) : t \in shorter, c \in alphabet}

SearchTexts == TextsUpTo({"a", "B"}, MaxSearchLen)

InputTexts == TextsUpTo({"2", ".", "a"}, MaxInputLen)

----------------------------------------------------------------------------
(* Values and the value formatter *)

\* truncate's default digits.
digits == 3

\* One float unit is 10^-(digits+1).
Unit == 10 ^ (digits + 1)

\* The kinds of value an object's attributes and game properties hold.
FloatVal(n) == [t |-> "float", v |-> n]
IntVal(n) == [t |-> "int", v |-> n]
StrVal(s) == [t |-> "str", s |-> s]
VectorVal(e) == [t |-> "Vector", e |-> e]
ListVal(e) == [t |-> "list", e |-> e]

\* The fixed-point ties (..5 units) whose nearest double lies above the tie,
\* so that round(value, 3) goes away from zero on them (0.0005 -> 0.001,
\* 0.0025 -> 0.003); on the other ties it goes toward zero (1.2345 -> 1.234).
TiesAbove == {5, 15, 25, 35, 12335, 20005}

\* round(value, digits) on a float.
round(n) ==
    LET step == 10
        a == IF n < 0 THEN -n ELSE n
        q == a \div step
        r == a % step
        m == IF r > 5 \/ (r = 5 /\ a \in TiesAbove) THEN (q + 1) * step ELSE q * step
    IN  IF n < 0 THEN -m ELSE m

\* A variant that keeps the floats of a sequence only.
truncate_floats(value) ==
    IF value.t = "float" THEN FloatVal(round(value.v))
    ELSE IF value.t \in {"list", "Vector", "Euler"}
         THEN LET floats == SelectSeq(value.e, LAMBDA x : x.t = "float")
              IN  ListVal([i \in 1..Len(floats) |-> FloatVal(round(floats[i].v))])
    ELSE value

RECURSIVE truncate(_)
truncate(value) ==
    IF value.t = "float" THEN FloatVal(round(value.v))
    ELSE IF value.t \in {"list", "Vector", "Euler"}
         THEN ListVal([i \in 1..Len(value.e) |-> truncate(value.e[i])])
    ELSE value

\* The largest float, in units, and the longest sequence handed to truncate.
MaxFloat == 40
MaxVectorLen == 2

\* The sequences over a set, up to a length.
RECURSIVE SeqsUpTo(_, _)
SeqsUpTo(S, n) ==
    IF n = 0 THEN {<<>>}
    ELSE LET shorter == SeqsUpTo(S, n - 1)
         IN  shorter \cup {Append(s, x) : s \in shorter, x \in S}

\* The values handed to truncate: floats, the ties among them, ints, texts,
\* and Vectors and lists of floats and ints.
Floats == {FloatVal(n) : n \in (-MaxFloat..MaxFloat) \cup {12335, 12345, -12345, 20005}}

Elements == {FloatVal(n) : n \in {-15, 4, 5, 12345}} \cup {IntVal(42)}

Values ==
    Floats
    \cup {IntVal(n) : n \in {0, 42}}
    \cup {StrVal(s) : s \in {"boss", "1.2345"}}
    \cup {VectorVal(e) : e \in SeqsUpTo(Elements, MaxVectorLen)}
    \cup {ListVal(e) : e \in SeqsUpTo(Elements, MaxVectorLen)}

\* One value on its way through truncate: what was handed in first, what the
\* last call returned, and how many calls were made.
Formatting(given, result, calls) == [given |-> given, result |-> result, calls |-> calls]

\* The most calls of truncate made on one value.
MaxCalls == 2

\* truncate is called on what the call before returned.
Format ==
    /\ sample.calls < MaxCalls
    /\ sample' = Formatting(sample.given, truncate(sample.result), sample.calls + 1)
    /\ UNCHANGED <<variant, scene, search_text, object_list, selected_object, tabs,
                   engine, mouse_visible, last, owner, running, twin>>

----------------------------------------------------------------------------
(* The live scene *)

\* The names the scene's objects can have.
ObjectNames == {<<"A", "b">>, <<"B">>}

\* What an object's attributes can read at one poll: a moving rigid body with
\* game properties and a mesh, and an object with no physics, no game
\* property and no mesh (an empty, a lamp).  worldOrientation is kept as its
\* Euler angles, counted in quarter turns.
RigidBody ==
    [physicsId |-> 1,
     mass |-> FloatVal(12345),
     linearVelocity |-> VectorVal(<<FloatVal(5), FloatVal(0), FloatVal(-15000)>>),
     angularVelocity |-> VectorVal(<<FloatVal(0), FloatVal(0), FloatVal(20005)>>),
     props |-> << <<"health", IntVal(42)>>, <<"tag", StrVal("boss")>>,
                  <<"speed", FloatVal(12335)>> >>,
     worldPosition |-> <<FloatVal(10000), FloatVal(-25), FloatVal(0)>>,
     worldOrientation |-> <<1, 0, 0>>,
     worldScale |-> <<FloatVal(10000), FloatVal(10000), FloatVal(20000)>>,
     meshes |-> << <<"Metal", "Glass">> >>]

Empty ==
    [physicsId |-> 0,
     mass |-> FloatVal(0),
     linearVelocity |-> VectorVal(<<FloatVal(0), FloatVal(0), FloatVal(0)>>),
     angularVelocity |-> VectorVal(<<FloatVal(0), FloatVal(0), FloatVal(0)>>),
     props |-> <<>>,
     worldPosition |-> <<FloatVal(0), FloatVal(0), FloatVal(35)>>,
     worldOrientation |-> <<0, 0, -1>>,
     worldScale |-> <<FloatVal(10000), FloatVal(10000), FloatVal(10000)>>,
     meshes |-> <<>>]

ObjectKinds == {"RigidBody", "Empty"}

Attributes(kind) == IF kind = "RigidBody" THEN RigidBody ELSE Empty

\* A live object: its name and what its attributes read now.
GameObject(name, kind) == [name |-> name, kind |-> kind]

\* The sequences without repetition over a set.
RECURSIVE Orderings(_)
Orderings(S) ==
    {<<>>} \cup UNION {{<<x>> \o rest : rest \in Orderings(S \ {x})} : x \in S}

\* Every scene: objects with distinct names, in any order, each with any attributes.
Scenes ==
    UNION {
        {[i \in 1..Len(names) |-> GameObject(names[i], kindOf[i])] :
            kindOf \in [1..Len(names) -> ObjectKinds]} :
        names \in Orderings(ObjectNames)}

SceneNames(sc) == [i \in 1..Len(sc) |-> sc[i].name]

\* None, as the value of self.selected_object (no object name is empty).
None == <<>>

\* scene.objects.get(name) is not None.
InScene(sc, name) == \E i \in 1..Len(sc) : sc[i].name = name

\* scene.objects.get(name), when it is not None: the first object of that name.
ObjectsGet(sc, name) ==
    sc[CHOOSE i \in 1..Len(sc) :
          sc[i].name = name /\ \A j \in 1..(i - 1) : sc[j].name # name]

----------------------------------------------------------------------------
(* The six property tabs *)

\* The tabs, in the order the window adds them.
TabNames == <<"Physics", "Game", "Transform", "Materials", "Animations", "Logic Sensors">>

NumTabs == Len(TabNames)

\* One row of a form layout: addRow(label, QLabel(...)) or, with no label,
\* addRow(QLabel(...)).  The QLabel's text is its literal pieces and the
\* values formatted into it.
Row(label, text, values) == [label |-> label, text |-> text, values |-> values]

EmptyTabs == [i \in 1..NumTabs |-> <<>>]

\* A variant that reads the physics attributes of every object.
populate_physics_tab_unguarded(obj) ==
    << Row("Mass:", <<>>, <<truncate(obj.mass)>>),
       Row("Linear Velocity:", <<>>, <<truncate(obj.linearVelocity)>>),
       Row("Angular Velocity:", <<>>, <<truncate(obj.angularVelocity)>>) >>

populate_physics_tab(obj) ==
    IF obj.physicsId # 0
    THEN << Row("Mass:", <<>>, <<truncate(obj.mass)>>),
            Row("Linear Velocity:", <<>>, <<truncate(obj.linearVelocity)>>),
            Row("Angular Velocity:", <<>>, <<truncate(obj.angularVelocity)>>) >>
    ELSE << Row("", <<"No physics properties available.">>, <<>>) >>

\* A variant that shows a placeholder row for an object without game property.
populate_game_tab_or_placeholder(obj) ==
    IF obj.props = <<>>
    THEN << Row("", <<"No game properties available.">>, <<>>) >>
    ELSE [i \in 1..Len(obj.props) |->
            Row("", <<obj.props[i][1], ": ">>, <<truncate(obj.props[i][2])>>)]

populate_game_tab(obj) ==
    [i \in 1..Len(obj.props) |->
        Row("", <<obj.props[i][1], ": ">>, <<truncate(obj.props[i][2])>>)]

\* math.degrees on an angle of q quarter turns.
degrees(q) == FloatVal(q * 90 * Unit)

populate_transform_tab(obj) ==
    LET xyz(v) == <<truncate(v[1]), truncate(v[2]), truncate(v[3])>>
        euler == [i \in 1..3 |-> degrees(obj.worldOrientation[i])]
    IN  << Row("Position:", <<"X: ", ", Y: ", ", Z: ">>, xyz(obj.worldPosition)),
           Row("Rotation:", <<"X: ", ", Y: ", ", Z: ">>, xyz(euler)),
           Row("Scale:", <<"X: ", ", Y: ", ", Z: ">>, xyz(obj.worldScale)) >>

populate_materials_tab(obj) ==
    IF obj.meshes # <<>>
    THEN << Row("Materials:", obj.meshes[1], <<>>) >>
    ELSE << Row("", <<"No materials available.">>, <<>>) >>

populate_animations_tab(obj) ==
    << Row("", <<"No animation data available.">>, <<>>) >>

populate_logic_sensors_tab(obj) ==
    << Row("", <<"No logic sensors available.">>, <<>>) >>

\* The rows presenter i adds to its tab, obj being the attributes it reads.
Populate(i, obj) ==
    CASE i = 1 -> populate_physics_tab(obj)
      [] i = 2 -> populate_game_tab(obj)
      [] i = 3 -> populate_transform_tab(obj)
      [] i = 4 -> populate_materials_tab(obj)
      [] i = 5 -> populate_animations_tab(obj)
      [] i = 6 -> populate_logic_sensors_tab(obj)


\* The rows each presenter adds for an object of each kind.
Presented == [k \in ObjectKinds |-> [i \in 1..NumTabs |-> Populate(i, Attributes(k))]]

----------------------------------------------------------------------------
(* The game object that owns the overlay *)

\* cont.owner as start_gui reads and writes it: which of its three properties
\* are set, and how many windows have been built, update timer started, on
\* its behalf.
Owner(initialized, app, window, created) ==
    [gui_initialized |-> initialized, app |-> app, window |-> window, created |-> created]

\* The owner before any start_gui.
NoProperties == Owner(FALSE, FALSE, FALSE, 0)

\* The owner after one start_gui that went through.
Started == Owner(TRUE, TRUE, TRUE, 1)

----------------------------------------------------------------------------
(* What a handler leaves behind *)

\* A fault report: show_error(message, e) in GUI_FULL.py, print(message) in
\* gui_basic.py.  `about` is the object name formatted into the message.
Message(msg, about) == [msg |-> msg, about |-> about]

\* The record of one handler run: `raised` lists the calls that raised, in
\* order; `errors` the fault reports made; `escaped` whether an exception left
\* the handler; `calls` the engine calls made.
Ran(op, arg, raised, errors, escaped, calls) ==
    [op |-> op, arg |-> arg, raised |-> raised, errors |-> errors,
     escaped |-> escaped, calls |-> calls]

----------------------------------------------------------------------------
(* The object list and the search bar *)

\* Where update_object_list can be interrupted: the scene poll raises, or
\* reading scene.objects raises once the old buttons are gone.
ListFaults == {"none", "getCurrentScene", "scene.objects"}

\* for obj in scene.objects: a new button per object; a new button is not hidden.
Buttons(sc) == [i \in 1..Len(sc) |-> [text |-> sc[i].name, visible |-> TRUE]]

\* update_object_list of GUI_FULL.py: the new layout and what it reported.
update_object_list(fl) ==
    CASE fl = "getCurrentScene" ->
            [object_list |-> object_list,
             raised |-> <<fl>>,
             errors |-> <<Message("Error updating object list", <<>>)>>]
      [] fl = "scene.objects" ->
            [object_list |-> <<>>,
             raised |-> <<fl>>,
             errors |-> <<Message("Error updating object list", <<>>)>>]
      [] OTHER ->
            [object_list |-> Buttons(scene), raised |-> <<>>, errors |-> <<>>]

\* update_object_list of gui_basic.py: nothing is caught.
basic_update_object_list(fl) ==
    CASE fl = "getCurrentScene" ->
            [object_list |-> object_list, raised |-> <<fl>>]
      [] fl = "scene.objects" ->
            [object_list |-> <<>>, raised |-> <<fl>>]
      [] OTHER ->
            [object_list |-> Buttons(scene), raised |-> <<>>]

\* A variant that compares the text and the name as they are written.
SetVisibleCaseSensitive(list, text) ==
    [i \in 1..Len(list) |->
        [list[i] EXCEPT !.visible = Contains(text, list[i].text)]]

\* The loop of filter_objects: each button is shown iff the text is in its name,
\* both lower-cased.
SetVisible(list, text) ==
    [i \in 1..Len(list) |->
        [list[i] EXCEPT !.visible = Contains(lower(text), lower(list[i].text))]]

\* The user edits the search bar: textChanged calls filter_objects(text).
filter_objects(text) ==
    /\ variant = "full"
    /\ text # search_text
    /\ search_text' = text
    /\ object_list' = SetVisible(object_list, text)
    /\ last' = Ran("filter_objects", text, <<>>, <<>>, FALSE, <<>>)
    /\ UNCHANGED <<twin, sample, owner, running, variant, scene, selected_object, tabs, engine, mouse_visible>>

basic_filter_objects(text) ==
    /\ variant = "basic"
    /\ text # search_text
    /\ search_text' = text
    /\ object_list' = SetVisible(object_list, text)
    /\ last' = Ran("filter_objects", text, <<>>, <<>>, FALSE, <<>>)
    /\ UNCHANGED <<twin, sample, owner, running, variant, scene, selected_object, tabs, engine, mouse_visible>>

----------------------------------------------------------------------------
(* Selection and the property tabs *)

\* Where update_properties_tabs can be interrupted: the scene poll raises, or
\* one of the six presenters raises on entry.
TabFaults == {"none", "getCurrentScene"} \cup {TabNames[i] : i \in 1..NumTabs}

\* The tabs after the clear and the populate_* calls, the presenter named by
\* ft raising: the tabs before it are populated, the others stay cleared.
Populated(obj, ft) ==
    LET stop == IF \E i \in 1..NumTabs : TabNames[i] = ft
                THEN CHOOSE i \in 1..NumTabs : TabNames[i] = ft
                ELSE NumTabs + 1
    IN  [i \in 1..NumTabs |-> IF i < stop THEN Presented[obj.kind][i] ELSE <<>>]

\* A variant that presents only what the list shows: an object whose name does
\* not contain the search text keeps the rows the tabs last held.
PropertiesTabsOfShownOnly(sel, ft) ==
    IF sel = None
    THEN [tabs |-> tabs, raised |-> <<>>]
    ELSE IF ft = "getCurrentScene"
    THEN [tabs |-> tabs, raised |-> <<ft>>]
    ELSE IF ~InScene(scene, sel) \/ ~Contains(lower(search_text), lower(sel))
    THEN [tabs |-> tabs, raised |-> <<>>]
    ELSE [tabs |-> Populated(ObjectsGet(scene, sel), ft),
          raised |-> IF ft = "none" THEN <<>> ELSE <<ft>>]

\* The body of update_properties_tabs, with sel as self.selected_object: the
\* tabs it leaves and the call that raised, if one did.
PropertiesTabs(sel, ft) ==
    IF sel = None
    THEN [tabs |-> tabs, raised |-> <<>>]
    ELSE IF ft = "getCurrentScene"
    THEN [tabs |-> tabs, raised |-> <<ft>>]
    ELSE IF ~InScene(scene, sel)
    THEN [tabs |-> tabs, raised |-> <<>>]
    ELSE [tabs |-> Populated(ObjectsGet(scene, sel), ft),
          raised |-> IF ft = "none" THEN <<>> ELSE <<ft>>]

\* The places where update_properties_tabs, run with sel selected, can be
\* interrupted: those it gets to.
TabFaultsAt(sel) ==
    IF sel = None THEN {"none"}
    ELSE IF ~InScene(scene, sel) THEN {"none", "getCurrentScene"}
    ELSE TabFaults

\* update_properties_tabs of GUI_FULL.py: what is raised is reported.
update_properties_tabs(sel, ft) ==
    LET body == PropertiesTabs(sel, ft)
    IN  [tabs |-> body.tabs,
         raised |-> body.raised,
         errors |-> IF body.raised = <<>> THEN <<>>
                    ELSE <<Message("Error updating properties for object", sel)>>]

\* update_properties_tabs of gui_basic.py: what is raised leaves the method.
basic_update_properties_tabs(sel, ft) == PropertiesTabs(sel, ft)

\* The names the user can click: the buttons shown in the list.
Clickable == {object_list[i].text : i \in {j \in 1..Len(object_list) : object_list[j].visible}}

\* The user clicks the button of object_name.
select_object(object_name, ft) ==
    /\ variant = "full"
    /\ object_name \in Clickable
    /\ LET t == update_properties_tabs(object_name, ft)
       IN  /\ selected_object' = object_name
           /\ tabs' = t.tabs
           /\ last' = Ran("select_object", object_name, t.raised, t.errors, FALSE, <<>>)
    /\ UNCHANGED <<twin, sample, owner, running, variant, scene, search_text, object_list, engine, mouse_visible>>

basic_select_object(object_name, ft) ==
    /\ variant = "basic"
    /\ object_name \in Clickable
    /\ LET t == basic_update_properties_tabs(object_name, ft)
       IN  /\ selected_object' = object_name
           /\ tabs' = t.tabs
           /\ last' = Ran("select_object", object_name, t.raised, <<>>,
                          t.raised # <<>>, <<>>)
    /\ UNCHANGED <<twin, sample, owner, running, variant, scene, search_text, object_list, engine, mouse_visible>>

----------------------------------------------------------------------------
(* The refresh tick *)

\* A variant that drops the selection, and the rows with it, when the selected
\* object is not in the polled scene.
refresh_properties_deselecting(fl, ft) ==
    /\ variant = "full"
    /\ LET l == update_object_list(fl)
           t == update_properties_tabs(selected_object, ft)
           gone == selected_object # None /\ ~InScene(scene, selected_object)
       IN  /\ object_list' = l.object_list
           /\ tabs' = IF gone THEN EmptyTabs ELSE t.tabs
           /\ selected_object' = IF gone THEN None ELSE selected_object
           /\ last' = Ran("refresh_properties", <<>>, l.raised \o t.raised,
                          l.errors \o t.errors, FALSE, <<>>)
    /\ UNCHANGED <<twin, sample, owner, running, variant, scene, search_text, engine,
                   mouse_visible>>

\* The update timer fires.  Both methods catch what they raise, so the outer
\* try of refresh_properties has nothing left to catch.
refresh_properties(fl, ft) ==
    /\ variant = "full"
    /\ LET l == update_object_list(fl)
           t == update_properties_tabs(selected_object, ft)
       IN  /\ object_list' = l.object_list
           /\ tabs' = t.tabs
           /\ last' = Ran("refresh_properties", <<>>, l.raised \o t.raised,
                          l.errors \o t.errors, FALSE, <<>>)
    /\ UNCHANGED <<twin, sample, owner, running, variant, scene, search_text, selected_object, engine, mouse_visible>>

\* gui_basic.py: an exception in update_object_list skips update_properties_tabs
\* and leaves the handler.
basic_refresh_properties(fl, ft) ==
    /\ variant = "basic"
    /\ LET l == basic_update_object_list(fl)
           t == IF l.raised = <<>>
                THEN basic_update_properties_tabs(selected_object, ft)
                ELSE [tabs |-> tabs, raised |-> <<>>]
       IN  /\ object_list' = l.object_list
           /\ tabs' = t.tabs
           /\ last' = Ran("refresh_properties", <<>>, l.raised \o t.raised, <<>>,
                          l.raised \o t.raised # <<>>, <<>>)
    /\ UNCHANGED <<twin, sample, owner, running, variant, scene, search_text, selected_object, engine, mouse_visible>>

----------------------------------------------------------------------------
(* The game engine, between two handlers *)

\* One frame's change to the scene: an object is added (at the end, under a
\* name no live object has), an object ends, or an object's attributes move on.
SceneSteps ==
    {Append(scene, GameObject(n, k)) :
        n \in {m \in ObjectNames : ~InScene(scene, m)}, k \in ObjectKinds}
    \cup {SubSeq(scene, 1, i - 1) \o SubSeq(scene, i + 1, Len(scene)) : i \in 1..Len(scene)}
    \cup {[scene EXCEPT ![i] = GameObject(scene[i].name, k)] :
            i \in 1..Len(scene), k \in ObjectKinds}

SceneChanges(sc) ==
    /\ sc # scene
    /\ scene' = sc
    /\ last' = Ran("scene", <<>>, <<>>, <<>>, FALSE, <<>>)
    /\ UNCHANGED <<twin, sample, owner, running, variant, search_text, object_list, selected_object, tabs,
                   engine, mouse_visible>>

----------------------------------------------------------------------------
(* Playback commands *)

DigitChars == <<"0", "1", "2", "3", "4", "5", "6", "7", "8", "9">>

IsDigit(c) == \E d \in 1..Len(DigitChars) : DigitChars[d] = c

DigitValue(c) == (CHOOSE d \in 1..Len(DigitChars) : DigitChars[d] = c) - 1

\* The value of a run of decimal digits.
RECURSIVE Decimal(_)
Decimal(ds) ==
    IF ds = <<>> THEN 0
    ELSE 10 * Decimal(SubSeq(ds, 1, Len(ds) - 1)) + DigitValue(ds[Len(ds)])

\* float(text) on texts of signs, digits, dots and letters: an optional sign,
\* then digits with at most one dot and at least one digit; anything else is
\* a ValueError.  (No text here has blanks, an exponent, inf or nan, nor more
\* decimals than a float unit holds.)
ParseFloat(text) ==
    LET signed == text # <<>> /\ text[1] \in {"-", "+"}
        body == IF signed THEN Tail(text) ELSE text
        dots == {i \in 1..Len(body) : body[i] = "."}
        dot == IF dots = {} THEN Len(body) + 1 ELSE CHOOSE i \in dots : TRUE
        whole == SubSeq(body, 1, dot - 1)
        frac == SubSeq(body, dot + 1, Len(body))
        ok == /\ \A i \in 1..Len(body) : IsDigit(body[i]) \/ body[i] = "."
              /\ Cardinality(dots) <= 1
              /\ Len(whole) + Len(frac) >= 1
        magnitude == Decimal(whole) * Unit + Decimal(frac) * 10 ^ (digits + 1 - Len(frac))
    IN  IF ok
        THEN [ok |-> TRUE, value |-> IF signed /\ text[1] = "-" THEN -magnitude ELSE magnitude]
        ELSE [ok |-> FALSE, value |-> 0]

\* What the engine call of a command can do: return, or raise a ValueError or
\* an exception of another class.
SinkFaults == {"none", "ValueError", "RuntimeError"}

\* What the engine call of set_fps / set_game_speed can do: there is no call
\* when the text does not parse.
SinkFaultsAt(text) == IF ParseFloat(text).ok THEN SinkFaults ELSE {"none"}

\* One call forwarded to bge.logic / bge.render.
Call(fn, value) == [fn |-> fn, value |-> value]

\* The engine after a call that returned.
Apply(call) ==
    CASE call.fn = "setLogicTicRate" -> [engine EXCEPT !.ticRate = call.value]
      [] call.fn = "setTimeScale" -> [engine EXCEPT !.timeScale = call.value]
      [] call.fn = "showMouse" -> [engine EXCEPT !.mouse = call.value]
      [] OTHER -> engine

\* A variant that falls back on 0 when the text does not parse, and forwards
\* it after reporting.
ParseOrZeroAndForward(op, text, fn, invalid, fs) ==
    LET p == ParseFloat(text)
        call == Call(fn, IF p.ok THEN p.value ELSE 0)
    IN  /\ IF fs = "none"
           THEN /\ engine' = Apply(call)
                /\ last' = Ran(op, text, IF p.ok THEN <<>> ELSE <<"float">>,
                               IF p.ok THEN <<>> ELSE <<Message(invalid, <<>>)>>,
                               FALSE, <<call>>)
           ELSE IF fs = "ValueError"
           THEN /\ engine' = engine
                /\ last' = Ran(op, text, <<fs>>, <<Message(invalid, <<>>)>>, FALSE, <<call>>)
           ELSE /\ engine' = engine
                /\ last' = Ran(op, text, <<fs>>, <<>>, TRUE, <<call>>)
        /\ UNCHANGED <<twin, sample, owner, running, variant, scene, search_text, object_list, selected_object, tabs,
                       mouse_visible>>

\* A command that parses its input and forwards it, catching ValueError only
\* (set_fps, set_game_speed): GUI_FULL.py reports through show_error,
\* gui_basic.py prints the same message.
ParseAndForward(op, text, fn, invalid, fs) ==
    LET p == ParseFloat(text)
        call == Call(fn, p.value)
    IN  /\ IF ~p.ok
           THEN /\ engine' = engine
                /\ last' = Ran(op, text, <<"float">>, <<Message(invalid, <<>>)>>, FALSE, <<>>)
           ELSE IF fs = "none"
           THEN /\ engine' = Apply(call)
                /\ last' = Ran(op, text, <<>>, <<>>, FALSE, <<call>>)
           ELSE IF fs = "ValueError"
           THEN /\ engine' = engine
                /\ last' = Ran(op, text, <<fs>>, <<Message(invalid, <<>>)>>, FALSE, <<call>>)
           ELSE /\ engine' = engine
                /\ last' = Ran(op, text, <<fs>>, <<>>, TRUE, <<call>>)
        /\ UNCHANGED <<twin, sample, owner, running, variant, scene, search_text, object_list, selected_object, tabs,
                       mouse_visible>>

set_fps(text, fs) ==
    /\ variant = "full"
    /\ ParseAndForward("set_fps", text, "setLogicTicRate", "Invalid FPS value.", fs)

set_game_speed(text, fs) ==
    /\ variant = "full"
    /\ ParseAndForward("set_game_speed", text, "setTimeScale", "Invalid game speed value.", fs)

basic_set_fps(text, fs) ==
    /\ variant = "basic"
    /\ ParseAndForward("set_fps", text, "setLogicTicRate", "Invalid FPS value.", fs)

basic_set_game_speed(text, fs) ==
    /\ variant = "basic"
    /\ ParseAndForward("set_game_speed", text, "setTimeScale", "Invalid game speed value.", fs)

\* A variant that rebuilds the object list after the call.
ForwardAndRefresh(op, call, failed, fs) ==
    /\ variant = "full"
    /\ IF fs = "none"
       THEN /\ engine' = Apply(call)
            /\ last' = Ran(op, <<>>, <<>>, <<>>, FALSE, <<call>>)
       ELSE /\ engine' = engine
            /\ last' = Ran(op, <<>>, <<fs>>, <<Message(failed, <<>>)>>, FALSE, <<call>>)
    /\ object_list' = Buttons(scene)
    /\ UNCHANGED <<twin, sample, owner, running, variant, scene, search_text, selected_object,
                   tabs, mouse_visible>>

\* A command that forwards one call inside try / except Exception
\* (pause_game, play_game, step_frame of GUI_FULL.py).
Forward(op, call, failed, fs) ==
    /\ variant = "full"
    /\ IF fs = "none"
       THEN /\ engine' = Apply(call)
            /\ last' = Ran(op, <<>>, <<>>, <<>>, FALSE, <<call>>)
       ELSE /\ engine' = engine
            /\ last' = Ran(op, <<>>, <<fs>>, <<Message(failed, <<>>)>>, FALSE, <<call>>)
    /\ UNCHANGED <<twin, sample, owner, running, variant, scene, search_text, object_list, selected_object, tabs,
                   mouse_visible>>

pause_game(fs) ==
    Forward("pause_game", Call("setTimeScale", 0), "Error pausing the game.", fs)

\* A variant that resumes at the time scale in force, and at 1 from a pause.
play_game_resuming(fs) ==
    Forward("play_game",
            Call("setTimeScale", IF engine.timeScale = 0 THEN 1 * Unit ELSE engine.timeScale),
            "Error resuming the game.", fs)

play_game(fs) ==
    Forward("play_game", Call("setTimeScale", 1 * Unit), "Error resuming the game.", fs)

step_frame(fs) ==
    Forward("step_frame", Call("nextFrame", 0), "Error stepping the frame.", fs)

\* Logs only.
toggle_physics_visualization ==
    /\ variant = "full"
    /\ last' = Ran("toggle_physics_visualization", <<>>, <<>>, <<>>, FALSE, <<>>)
    /\ UNCHANGED <<twin, sample, owner, running, variant, scene, search_text, object_list, selected_object, tabs,
                   engine, mouse_visible>>

\* `global mouse_visible; mouse_visible = not mouse_visible`: reading the
\* global raises NameError while no assignment has bound it.
toggle_mouse(fs) ==
    /\ variant = "full"
    /\ IF ~mouse_visible.bound
       THEN /\ UNCHANGED <<engine, mouse_visible>>
            /\ last' = Ran("toggle_mouse", <<>>, <<"NameError">>,
                           <<Message("Error toggling mouse visibility.", <<>>)>>, FALSE, <<>>)
       ELSE LET flipped == ~mouse_visible.value
                call == Call("showMouse", flipped)
            IN  /\ mouse_visible' = [mouse_visible EXCEPT !.value = flipped]
                /\ IF fs = "none"
                   THEN /\ engine' = Apply(call)
                        /\ last' = Ran("toggle_mouse", <<>>, <<>>, <<>>, FALSE, <<call>>)
                   ELSE /\ engine' = engine
                        /\ last' = Ran("toggle_mouse", <<>>, <<fs>>,
                                       <<Message("Error toggling mouse visibility.", <<>>)>>,
                                       FALSE, <<call>>)
    /\ UNCHANGED <<twin, sample, owner, running, variant, scene, search_text, object_list, selected_object, tabs>>

\* gui_basic.py forwards the call with no try around it.
basic_Forward(op, call, fs) ==
    /\ variant = "basic"
    /\ IF fs = "none"
       THEN /\ engine' = Apply(call)
            /\ last' = Ran(op, <<>>, <<>>, <<>>, FALSE, <<call>>)
       ELSE /\ engine' = engine
            /\ last' = Ran(op, <<>>, <<fs>>, <<>>, TRUE, <<call>>)
    /\ UNCHANGED <<twin, sample, owner, running, variant, scene, search_text, object_list, selected_object, tabs,
                   mouse_visible>>

basic_pause_game(fs) == basic_Forward("pause_game", Call("setTimeScale", 0), fs)

basic_play_game(fs) == basic_Forward("play_game", Call("setTimeScale", 1 * Unit), fs)

basic_step_frame(fs) == basic_Forward("step_frame", Call("nextFrame", 0), fs)

basic_toggle_physics_visualization ==
    /\ variant = "basic"
    /\ last' = Ran("toggle_physics_visualization", <<>>, <<>>, <<>>, FALSE, <<>>)
    /\ UNCHANGED <<twin, sample, owner, running, variant, scene, search_text, object_list, selected_object, tabs,
                   engine, mouse_visible>>

basic_toggle_mouse(fs) ==
    /\ variant = "basic"
    /\ IF ~mouse_visible.bound
       THEN /\ UNCHANGED <<engine, mouse_visible>>
            /\ last' = Ran("toggle_mouse", <<>>, <<"NameError">>, <<>>, TRUE, <<>>)
       ELSE LET flipped == ~mouse_visible.value
                call == Call("showMouse", flipped)
            IN  /\ mouse_visible' = [mouse_visible EXCEPT !.value = flipped]
                /\ IF fs = "none"
                   THEN /\ engine' = Apply(call)
                        /\ last' = Ran("toggle_mouse", <<>>, <<>>, <<>>, FALSE, <<call>>)
                   ELSE /\ engine' = engine
                        /\ last' = Ran("toggle_mouse", <<>>, <<fs>>, <<>>, TRUE, <<call>>)
    /\ UNCHANGED <<twin, sample, owner, running, variant, scene, search_text, object_list, selected_object, tabs>>

----------------------------------------------------------------------------
(* Two windows over one scene *)

\* A window as it stands: what it displays, the handler it ran last, and the
\* scene as it was when the window last acted.
Window(search, list, selected, rows, ran, sc) ==
    [search_text |-> search, object_list |-> list, selected_object |-> selected,
     tabs |-> rows, last |-> ran, scene |-> sc]

\* No second window.
NoTwin == Window(<<>>, <<>>, None, EmptyTabs, Ran("__init__", <<>>, <<>>, <<>>, FALSE, <<>>), <<>>)

\* The two windows change places: the handlers act on the other one from now
\* on.  The scene may have moved on since that one acted.
Swap ==
    /\ twin' = Window(search_text, object_list, selected_object, tabs, last, scene)
    /\ twin' # twin
    /\ search_text' = twin.search_text
    /\ object_list' = twin.object_list
    /\ selected_object' = twin.selected_object
    /\ tabs' = twin.tabs
    /\ last' = IF twin.scene = scene THEN twin.last
               ELSE Ran("scene", <<>>, <<>>, <<>>, FALSE, <<>>)
    /\ UNCHANGED <<variant, scene, engine, mouse_visible, owner, running, sample>>

----------------------------------------------------------------------------
(* The program *)

\* The first start_gui has gone through, DebuggerWindow.__init__ on some
\* scene: no box is open, nothing selected, the search bar
\* empty, the tabs empty, the list built once; the engine at its defaults
\* (the values the window's inputs start with); mouse_visible not bound.
Init ==
    /\ variant \in {"full", "basic"}
    /\ scene \in Scenes
    /\ search_text = <<>>
    /\ selected_object = None
    /\ tabs = EmptyTabs
    /\ object_list = Buttons(scene)
    /\ engine = [ticRate |-> 60 * Unit, timeScale |-> 1 * Unit, mouse |-> FALSE]
    /\ mouse_visible = [bound |-> FALSE, value |-> FALSE]
    /\ last = Ran("__init__", <<>>, <<>>, <<>>, FALSE, <<>>)
    /\ owner = Started
    /\ running = <<>>
    /\ sample = Formatting(IntVal(0), IntVal(0), 0)
    /\ twin = NoTwin

\* The inspector: the timer, the search bar, the list, and the scene under them.
Inspect ==
    \/ \E fl \in ListFaults, ft \in TabFaultsAt(selected_object) : refresh_properties(fl, ft)
    \/ \E fl \in ListFaults, ft \in TabFaultsAt(selected_object) :
            basic_refresh_properties(fl, ft)
    \/ \E text \in SearchTexts : filter_objects(text)
    \/ \E text \in SearchTexts : basic_filter_objects(text)
    \/ \E name \in ObjectNames : \E ft \in TabFaultsAt(name) : select_object(name, ft)
    \/ \E name \in ObjectNames : \E ft \in TabFaultsAt(name) : basic_select_object(name, ft)
    \/ \E sc \in SceneSteps : SceneChanges(sc)

\* The playback controls.
Playback ==
    \/ \E text \in InputTexts : \E fs \in SinkFaultsAt(text) : set_fps(text, fs)
    \/ \E text \in InputTexts : \E fs \in SinkFaultsAt(text) : set_game_speed(text, fs)
    \/ \E fs \in SinkFaults : pause_game(fs)
    \/ \E fs \in SinkFaults : play_game(fs)
    \/ \E fs \in SinkFaults : step_frame(fs)
    \/ toggle_physics_visualization
    \/ \E fs \in SinkFaults : toggle_mouse(fs)
    \/ \E text \in InputTexts : \E fs \in SinkFaultsAt(text) : basic_set_fps(text, fs)
    \/ \E text \in InputTexts : \E fs \in SinkFaultsAt(text) : basic_set_game_speed(text, fs)
    \/ \E fs \in SinkFaults : basic_pause_game(fs)
    \/ \E fs \in SinkFaults : basic_play_game(fs)
    \/ \E fs \in SinkFaults : basic_step_frame(fs)
    \/ basic_toggle_physics_visualization
    \/ \E fs \in SinkFaults : basic_toggle_mouse(fs)

\* The most windows built for one owner.
MaxWindows == 2

\* Where run_gui can be interrupted: QApplication(sys.argv) raises, the scene
\* poll at the end of DebuggerWindow.__init__ raises, window.show() raises.
StartFaults == {"none", "QApplication", "getCurrentScene", "show"}

\* run_gui, and DebuggerWindow.__init__ under it, in GUI_FULL.py: whether it
\* returned, whether a window was built and its update timer started, the
\* list the window starts with, and what was raised and reported.  The poll
\* that raises in update_object_list is caught there.
run_gui(fr) ==
    CASE fr = "QApplication" ->
            [returned |-> FALSE, built |-> FALSE, object_list |-> <<>>,
             raised |-> <<fr>>, errors |-> <<>>]
      [] fr = "getCurrentScene" ->
            [returned |-> TRUE, built |-> TRUE, object_list |-> <<>>,
             raised |-> <<fr>>, errors |-> <<Message("Error updating object list", <<>>)>>]
      [] fr = "show" ->
            [returned |-> FALSE, built |-> TRUE, object_list |-> Buttons(scene),
             raised |-> <<fr>>, errors |-> <<>>]
      [] OTHER ->
            [returned |-> TRUE, built |-> TRUE, object_list |-> Buttons(scene),
             raised |-> <<>>, errors |-> <<>>]

\* run_gui in gui_basic.py: the poll that raises leaves __init__, after the
\* update timer was started.
basic_run_gui(fr) ==
    CASE fr = "QApplication" ->
            [returned |-> FALSE, built |-> FALSE, object_list |-> <<>>, raised |-> <<fr>>]
      [] fr = "getCurrentScene" ->
            [returned |-> FALSE, built |-> TRUE, object_list |-> <<>>, raised |-> <<fr>>]
      [] fr = "show" ->
            [returned |-> FALSE, built |-> TRUE, object_list |-> Buttons(scene),
             raised |-> <<fr>>]
      [] OTHER ->
            [returned |-> TRUE, built |-> TRUE, object_list |-> Buttons(scene),
             raised |-> <<>>]

\* The owner and the window after the body of start_gui, g being what run_gui
\* did if it was called: a window that was built starts with an empty search
\* bar, no selection and empty tabs; the properties are set once run_gui has
\* returned; processEvents is called when 'app' is set.
StartGui(called, g, escaped) ==
    /\ owner' = IF ~called THEN owner
                ELSE Owner(g.returned, g.returned, g.returned,
                           owner.created + (IF g.built THEN 1 ELSE 0))
    /\ IF called /\ g.built
       THEN /\ search_text' = <<>>
            /\ selected_object' = None
            /\ tabs' = EmptyTabs
            /\ object_list' = g.object_list
       ELSE UNCHANGED <<search_text, selected_object, tabs, object_list>>
    /\ last' = Ran("start_gui", <<>>,
                   IF called THEN g.raised ELSE <<>>,
                   IF called /\ escaped = FALSE /\ g.returned THEN g.errors ELSE <<>>,
                   escaped /\ called /\ ~g.returned,
                   (IF called THEN <<Call("run_gui", 0)>> ELSE <<>>)
                   \o (IF (~called /\ owner.app) \/ (called /\ g.returned)
                       THEN <<Call("processEvents", 0)>> ELSE <<>>))
    /\ UNCHANGED <<twin, sample, running, variant, scene, engine, mouse_visible>>

\* The logic brick runs start_gui(cont), GUI_FULL.py: what run_gui raises is
\* logged, and the request ends.
start_gui(fr) ==
    /\ variant = "full"
    /\ running = <<>>
    /\ owner.gui_initialized \/ owner.created < MaxWindows
    /\ owner.gui_initialized => fr = "none"
    /\ StartGui(~owner.gui_initialized, run_gui(fr), FALSE)

\* gui_basic.py: what run_gui raises leaves start_gui.
basic_start_gui(fr) ==
    /\ variant = "basic"
    /\ running = <<>>
    /\ owner.gui_initialized \/ owner.created < MaxWindows
    /\ owner.gui_initialized => fr = "none"
    /\ StartGui(~owner.gui_initialized,
                basic_run_gui(fr) @@ [errors |-> <<>>], TRUE)

\* The logic brick, frame after frame.
Start ==
    \/ \E fr \in StartFaults : start_gui(fr)
    \/ \E fr \in StartFaults : basic_start_gui(fr)

\* Every handler as one step: an error box is dismissed before anything else
\* happens (Modal, below, is the tick with its boxes left open).
Next == Inspect \/ Playback \/ Start \/ Format

Spec == Init /\ [][Next]_vars

\* The inspector alone: the playback controls are not touched.
SpecInspect == Init /\ [][Inspect]_vars

\* The playback controls alone, on a window built over a scene of every
\* object name, each a rigid body: the window shows what it was built with.
InitPlayback ==
    /\ Init
    /\ Len(scene) = Cardinality(ObjectNames)
    /\ \A i \in 1..Len(scene) : scene[i].kind = "RigidBody"

SpecPlayback == InitPlayback /\ [][Playback]_vars

\* The most handlers waiting in show_error at the same time.
MaxBoxes == 2

\* A handler waiting in show_error: msg_box.exec_() runs the event loop until
\* the user presses OK.  `at` is the method that called show_error.
Waiting(op, at) == [op |-> op, at |-> at]

\* update_timer.timeout in GUI_FULL.py, show_error not cut short: the timer
\* fires whenever an event loop runs, that of processEvents or that of an open
\* box.  The tick runs to its end, or to its first show_error and waits there.
timeout(fl, ft) ==
    /\ variant = "full"
    /\ LET l == update_object_list(fl)
           t == update_properties_tabs(selected_object, ft)
       IN  IF l.raised # <<>>
           THEN /\ ft = "none"
                /\ Len(running) < MaxBoxes
                /\ running' = Append(running, Waiting("refresh_properties", "update_object_list"))
                /\ object_list' = l.object_list
                /\ tabs' = tabs
                /\ last' = Ran("refresh_properties", <<>>, l.raised, l.errors, FALSE, <<>>)
           ELSE /\ t.raised # <<>> => Len(running) < MaxBoxes
                /\ running' = IF t.raised # <<>>
                              THEN Append(running, Waiting("refresh_properties",
                                                           "update_properties_tabs"))
                              ELSE running
                /\ object_list' = l.object_list
                /\ tabs' = t.tabs
                /\ last' = Ran("refresh_properties", <<>>, t.raised, t.errors, FALSE, <<>>)
    /\ UNCHANGED <<twin, sample, owner, variant, scene, search_text, selected_object, engine,
                   mouse_visible>>

\* The user presses OK on the open box: exec_() returns and the tick that
\* waited goes on, from update_object_list to update_properties_tabs, which
\* may open a box of its own, and from update_properties_tabs to its end.
dismiss(ft) ==
    /\ variant = "full"
    /\ running # <<>>
    /\ LET top == running[Len(running)]
           below == SubSeq(running, 1, Len(running) - 1)
           t == update_properties_tabs(selected_object, ft)
       IN  IF top.at = "update_object_list"
           THEN /\ running' = IF t.raised # <<>>
                              THEN Append(below, Waiting("refresh_properties",
                                                         "update_properties_tabs"))
                              ELSE below
                /\ tabs' = t.tabs
                /\ last' = Ran("refresh_properties", <<>>, t.raised, t.errors, FALSE, <<>>)
           ELSE /\ ft = "none"
                /\ running' = below
                /\ tabs' = tabs
                /\ last' = Ran("show_error", <<>>, <<>>, <<>>, FALSE, <<>>)
    /\ UNCHANGED <<twin, sample, owner, variant, scene, search_text, object_list, selected_object,
                   engine, mouse_visible>>

\* The window with its boxes: a box takes the clicks (ApplicationModal) and
\* keeps the game engine inside start_gui, so the list is clicked and the
\* scene moves on only while no box is open.
Modal ==
    \/ \E fl \in ListFaults, ft \in TabFaultsAt(selected_object) : timeout(fl, ft)
    \/ \E ft \in TabFaultsAt(selected_object) : dismiss(ft)
    \/ running = <<>> /\ \E name \in ObjectNames : select_object(name, "none")
    \/ running = <<>> /\ \E sc \in SceneSteps : SceneChanges(sc)

InitModal == Init /\ variant = "full"

SpecModal == InitModal /\ [][Modal]_vars

\* Two windows of GUI_FULL.py built over the same scene, each with its own
\* ticks and clicks; nothing raises and the search bars stay empty.
InitTwin ==
    /\ variant = "full"
    /\ scene \in Scenes
    /\ search_text = <<>>
    /\ selected_object = None
    /\ tabs = EmptyTabs
    /\ object_list = Buttons(scene)
    /\ engine = [ticRate |-> 60 * Unit, timeScale |-> 1 * Unit, mouse |-> FALSE]
    /\ mouse_visible = [bound |-> FALSE, value |-> FALSE]
    /\ last = Ran("__init__", <<>>, <<>>, <<>>, FALSE, <<>>)
    /\ owner = Started
    /\ running = <<>>
    /\ sample = Formatting(IntVal(0), IntVal(0), 0)
    /\ twin = Window(search_text, object_list, selected_object, tabs, last, scene)

Twins ==
    \/ refresh_properties("none", "none")
    \/ \E name \in ObjectNames : select_object(name, "none")
    \/ \E sc \in SceneSteps : SceneChanges(sc)
    \/ Swap

SpecTwin == InitTwin /\ [][Twins]_vars

\* The playback controls on a window in use, over a scene of two rigid
\* bodies: either nothing was touched, or "B" was clicked and "a" then typed
\* in the search bar, which hides it.
InitCommands ==
    /\ variant \in {"full", "basic"}
    /\ scene = <<GameObject(<<"A", "b">>, "RigidBody"), GameObject(<<"B">>, "RigidBody")>>
    /\ \E used \in BOOLEAN :
        /\ search_text = IF used THEN <<"a">> ELSE <<>>
        /\ selected_object = IF used THEN <<"B">> ELSE None
        /\ tabs = IF used THEN Presented["RigidBody"] ELSE EmptyTabs
        /\ last = IF used THEN Ran("filter_objects", <<"a">>, <<>>, <<>>, FALSE, <<>>)
                  ELSE Ran("__init__", <<>>, <<>>, <<>>, FALSE, <<>>)
    /\ object_list = SetVisible(Buttons(scene), search_text)
    /\ engine = [ticRate |-> 60 * Unit, timeScale |-> 1 * Unit, mouse |-> FALSE]
    /\ mouse_visible = [bound |-> FALSE, value |-> FALSE]
    /\ owner = Started
    /\ running = <<>>
    /\ sample = Formatting(IntVal(0), IntVal(0), 0)
    /\ twin = NoTwin

SpecCommands == InitCommands /\ [][Playback]_vars

\* truncate alone, on every value.
InitTruncate ==
    /\ variant \in {"full", "basic"}
    /\ scene = <<>>
    /\ search_text = <<>>
    /\ selected_object = None
    /\ tabs = EmptyTabs
    /\ object_list = <<>>
    /\ engine = [ticRate |-> 60 * Unit, timeScale |-> 1 * Unit, mouse |-> FALSE]
    /\ mouse_visible = [bound |-> FALSE, value |-> FALSE]
    /\ last = Ran("__init__", <<>>, <<>>, <<>>, FALSE, <<>>)
    /\ owner = Started
    /\ running = <<>>
    /\ \E v \in Values : sample = Formatting(v, v, 0)
    /\ twin = NoTwin

SpecTruncate == InitTruncate /\ [][Format]_vars

\* The script is loaded and no start_gui has run: there is no window.
InitStart ==
    /\ variant \in {"full", "basic"}
    /\ scene \in Scenes
    /\ search_text = <<>>
    /\ selected_object = None
    /\ tabs = EmptyTabs
    /\ object_list = <<>>
    /\ engine = [ticRate |-> 60 * Unit, timeScale |-> 1 * Unit, mouse |-> FALSE]
    /\ mouse_visible = [bound |-> FALSE, value |-> FALSE]
    /\ last = Ran("__main__", <<>>, <<>>, <<>>, FALSE, <<>>)
    /\ owner = NoProperties
    /\ running = <<>>
    /\ sample = Formatting(IntVal(0), IntVal(0), 0)
    /\ twin = NoTwin

\* The start requests of the logic brick, over a scene that moves on.
StartRequests ==
    \/ \E fr \in StartFaults : start_gui(fr)
    \/ \E fr \in StartFaults : basic_start_gui(fr)
    \/ \E sc \in SceneSteps : SceneChanges(sc)

SpecStart == InitStart /\ [][StartRequests]_vars

\* The inspector with faults in the ticks only: no click raises.
InspectTickFaults ==
    \/ \E fl \in ListFaults, ft \in TabFaultsAt(selected_object) : refresh_properties(fl, ft)
    \/ \E fl \in ListFaults, ft \in TabFaultsAt(selected_object) :
            basic_refresh_properties(fl, ft)
    \/ \E text \in SearchTexts : filter_objects(text)
    \/ \E text \in SearchTexts : basic_filter_objects(text)
    \/ \E name \in ObjectNames : select_object(name, "none")
    \/ \E name \in ObjectNames : basic_select_object(name, "none")
    \/ \E sc \in SceneSteps : SceneChanges(sc)

SpecTickFaults == Init /\ [][InspectTickFaults]_vars

----------------------------------------------------------------------------
(* What the claims speak of *)

\* A refresh tick has just run.
Ticked == last.op = "refresh_properties"

\* A refresh tick has just run and nothing raised in it.
TickedClean == Ticked /\ last.raised = <<>>

\* The entries the list shows: the text of the buttons not hidden, in order.
Shown(list) ==
    LET visible == SelectSeq(list, LAMBDA b : b.visible)
    IN  [i \in 1..Len(visible) |-> visible[i].text]

\* The names of a scene that contain the text case-insensitively, in order.
Matching(sc, text) ==
    SelectSeq(SceneNames(sc), LAMBDA n : Contains(lower(text), lower(n)))

\* The six tabs presenting the object of that name in the scene.
PresentedFrom(sc, name) == Presented[ObjectsGet(sc, name).kind]

\* Some tab holds a row.
SomeRow(t) == \E i \in 1..NumTabs : t[i] # <<>>

\* What the tabs can hold while no presenter has ever raised: nothing, or the
\* six presentations of one object.
WholePresentations == {EmptyTabs} \cup {Presented[k] : k \in ObjectKinds}

----------------------------------------------------------------------------
(* C1 - C3: selection, filter and panels across a tick *)

\* C1: after every refresh tick the selection is none or names an object of
\* the scene the tick polled.  Stated for the ticks in which nothing raised.
C1_SelectionNeverDangling ==
    TickedClean => (selected_object = None \/ InScene(scene, selected_object))

\* C2: after every refresh tick the list shows exactly the names of the
\* polled scene that contain the current search text, case-insensitively, in
\* the scene's order.  Stated for the ticks in which nothing raised.
C2_FilterSurvivesTick ==
    TickedClean => Shown(object_list) = Matching(scene, search_text)

\* C3: when an object is selected and presented and the next tick polls a
\* scene without it, the tick leaves no selection and six empty tabs.  Stated
\* for the ticks in which nothing raised.
C3_PanelsClearedWhenSelectionGone ==
    [][(/\ last'.op = "refresh_properties"
        /\ last'.raised = <<>>
        /\ selected_object # None
        /\ SomeRow(tabs)
        /\ ~InScene(scene, selected_object))
       => (selected_object' = None /\ tabs' = EmptyTabs)]_vars

----------------------------------------------------------------------------
(* C4: a selection that is still in the scene *)

\* C4: a tick in which nothing raised, polling a scene that holds the selected
\* name, keeps the selection and leaves the six tabs presenting that object as
\* the scene has it now, whether or not the name matches the search text.
C4_SelectionKeptAndRepresented ==
    [][(/\ last'.op = "refresh_properties"
        /\ last'.raised = <<>>
        /\ selected_object # None
        /\ InScene(scene, selected_object))
       => (/\ selected_object' = selected_object
           /\ tabs' = PresentedFrom(scene, selected_object))]_vars

\* A tick has re-presented a selected object that the search text does not
\* match, from attributes other than those the tabs were last filled from.
C4_Witness ==
    /\ TickedClean
    /\ selected_object # None
    /\ InScene(scene, selected_object)
    /\ ~Contains(lower(search_text), lower(selected_object))
    /\ ObjectsGet(scene, selected_object).kind = "Empty"
    /\ tabs = PresentedFrom(scene, selected_object)

----------------------------------------------------------------------------
(* C5 - C8: the playback commands *)

\* C5: when the text of set_fps / set_game_speed does not parse as a float, no
\* call is forwarded, the engine keeps its tic rate and time scale, and one
\* error, the command's invalid-value message, is reported.
C5_InvalidInputRejected ==
    [][(/\ last'.op \in {"set_fps", "set_game_speed"}
        /\ ~ParseFloat(last'.arg).ok)
       => (/\ last'.calls = <<>>
           /\ engine' = engine
           /\ ~last'.escaped
           /\ last'.errors =
                <<Message(IF last'.op = "set_fps" THEN "Invalid FPS value."
                          ELSE "Invalid game speed value.", <<>>)>>)]_vars

\* set_fps has rejected the text "a" with the tic rate at a value set earlier.
C5_Witness ==
    /\ last.op = "set_fps"
    /\ last.arg = <<"a">>
    /\ Len(last.errors) = 1
    /\ engine.ticRate = 2 * Unit

\* C6: pause_game forwards setTimeScale(0) and play_game setTimeScale(1),
\* whatever the time scale was; when the call returns the time scale is 0,
\* respectively 1.
C6_PausePlayFixedScales ==
    [][last'.op \in {"pause_game", "play_game"}
       => LET scale == IF last'.op = "pause_game" THEN 0 ELSE 1 * Unit
          IN  /\ last'.calls = <<Call("setTimeScale", scale)>>
              /\ last'.raised = <<>> => engine' = [engine EXCEPT !.timeScale = scale]
              /\ last'.raised # <<>> => engine' = engine
              /\ UNCHANGED <<search_text, object_list, selected_object, tabs,
                             mouse_visible>>]_vars

\* play_game has returned the time scale to 1 and nothing else is changed:
\* the tic rate is the one set earlier.
C6_Witness ==
    /\ last.op = "play_game"
    /\ last.raised = <<>>
    /\ engine.timeScale = 1 * Unit
    /\ engine.ticRate = 2 * Unit

\* C7: every toggle_mouse forwards exactly one showMouse call, with the
\* flipped flag.
C7_ToggleForwardsOnce ==
    last.op = "toggle_mouse" =>
        (/\ Len(last.calls) = 1
         /\ last.calls[1].fn = "showMouse"
         /\ mouse_visible.bound
         /\ last.calls[1].value = mouse_visible.value)

\* C8: in GUI_FULL.py, when the engine call of a playback command raises, the
\* handler reports it once and lets nothing escape.
C8_SinkFaultCaught ==
    (/\ variant = "full"
     /\ last.op \in {"set_fps", "set_game_speed", "pause_game", "play_game",
                     "step_frame", "toggle_mouse"}
     /\ last.calls # <<>>
     /\ last.raised # <<>>)
    => (~last.escaped /\ Len(last.errors) = 1)

----------------------------------------------------------------------------
(* C9, C10: faults in a tick *)

\* C9: in GUI_FULL.py every exception raised in a tick is reported once and
\* none leaves refresh_properties; and a tick in which nothing raises leaves
\* the list and the tabs of a session in which no tick ever raised: the list
\* rebuilt from the scene, and each tab as whole as it is without faults.
C9_TickFaultsReportedAndForgotten ==
    (variant = "full" /\ Ticked) =>
        (/\ ~last.escaped
         /\ Len(last.errors) = Len(last.raised)
         /\ last.raised = <<>> =>
                (object_list = Buttons(scene) /\ tabs \in WholePresentations))

\* The scene was unavailable throughout the tick just run: every poll raised.
SceneUnavailable ==
    /\ Ticked
    /\ last.raised = IF selected_object = None
                     THEN <<"getCurrentScene">>
                     ELSE <<"getCurrentScene", "getCurrentScene">>

\* C10: in GUI_FULL.py a tick during which the scene is unavailable ends with
\* an empty list and six empty tabs.
C10_UnavailableSceneClearsDisplay ==
    (variant = "full" /\ SceneUnavailable) => (object_list = <<>> /\ tabs = EmptyTabs)

----------------------------------------------------------------------------
(* C11: one presenter fails *)

\* The position of a tab by its name.
TabIndex(name) == CHOOSE i \in 1..NumTabs : TabNames[i] = name

\* A tab showing a placeholder: one row, without label and without value.
Placeholder(rows) ==
    /\ Len(rows) = 1
    /\ rows[1].label = ""
    /\ rows[1].values = <<>>

\* A presenter, and nothing else, raised in the handler just run.
OnePresenterRaised ==
    /\ last.op \in {"select_object", "refresh_properties"}
    /\ Len(last.raised) = 1
    /\ \E i \in 1..NumTabs : TabNames[i] = last.raised[1]

\* C11: when exactly one presenter raises while the selected object, which is
\* in the scene, is presented, the tab of that presenter shows a placeholder
\* and each of the five other tabs holds the rows it holds when none raises.
C11_PresenterFaultIsolated ==
    OnePresenterRaised =>
        LET failed == TabIndex(last.raised[1])
        IN  /\ Placeholder(tabs[failed])
            /\ \A i \in (1..NumTabs) \ {failed} :
                    tabs[i] = PresentedFrom(scene, selected_object)[i]

----------------------------------------------------------------------------
(* C12: start requests *)

\* C12: whatever the sequence of start_gui calls on one owner, those after a
\* failed run_gui included, at most one window with its update timer is ever
\* built for the owner.
C12_AtMostOneSession == owner.created <= 1

----------------------------------------------------------------------------
(* C13, C14: what the Physics and the Game tab hold *)

\* The handler just run has presented the selected object, and nothing raised.
JustPresented ==
    /\ last.op \in {"select_object", "refresh_properties"}
    /\ last.raised = <<>>
    /\ selected_object # None
    /\ InScene(scene, selected_object)

\* What the attributes of the selected object read now.
SelectedAttributes == Attributes(ObjectsGet(scene, selected_object).kind)

\* C13: after every presentation, however many came before, the Physics tab
\* holds one placeholder row and no value when the object has no physics, and
\* otherwise the three rows mass, linear velocity, angular velocity, in that
\* order, each with the formatted value.
C13_PhysicsRows ==
    JustPresented =>
        LET obj == SelectedAttributes
            rows == tabs[1]
        IN  IF obj.physicsId = 0
            THEN /\ Placeholder(rows)
                 /\ rows[1].text = <<"No physics properties available.">>
            ELSE /\ Len(rows) = 3
                 /\ <<rows[1].label, rows[2].label, rows[3].label>>
                        = <<"Mass:", "Linear Velocity:", "Angular Velocity:">>
                 /\ <<rows[1].values, rows[2].values, rows[3].values>>
                        = << <<truncate(obj.mass)>>, <<truncate(obj.linearVelocity)>>,
                             <<truncate(obj.angularVelocity)>> >>

\* A tick has presented an object without physics, selected from a list that
\* a search text had narrowed: the placeholder is the only row.
C13_Witness ==
    /\ TickedClean
    /\ JustPresented
    /\ SelectedAttributes.physicsId = 0
    /\ search_text # <<>>
    /\ Len(tabs[1]) = 1

\* C14: after every presentation the Game tab holds one row per game property
\* of the object, in the order getPropertyNames gives them, each reading the
\* property's name, ": " and its formatted value; an object without game
\* property gets no row, and nothing is reported.
C14_GameRows ==
    JustPresented =>
        LET props == SelectedAttributes.props
            rows == tabs[2]
        IN  /\ Len(rows) = Len(props)
            /\ \A i \in 1..Len(props) :
                    /\ rows[i].text = <<props[i][1], ": ">>
                    /\ rows[i].values = <<truncate(props[i][2])>>
            /\ last.errors = <<>>
            /\ ~last.escaped

\* A tick has presented the rigid body: "health: 42", "tag: boss" and the
\* rounded speed, in that order.
C14_Witness ==
    /\ TickedClean
    /\ JustPresented
    /\ Len(tabs[2]) = 3
    /\ tabs[2][1] = Row("", <<"health", ": ">>, <<IntVal(42)>>)
    /\ tabs[2][2] = Row("", <<"tag", ": ">>, <<StrVal("boss")>>)
    /\ tabs[2][3].values = <<FloatVal(12340)>>

----------------------------------------------------------------------------
(* C15: the value formatter *)

\* The number of elements of a sequence value.
Arity(v) == Len(v.e)

\* C15: on every float, int, Vector and list, truncate applied to its own
\* result returns that result; a formatted sequence has as many elements as
\* the sequence handed in; a text comes back as it went in.
C15_TruncateIdempotent ==
    sample.calls >= 1 =>
        /\ sample.result = truncate(sample.given)
        /\ sample.given.t \in {"Vector", "list"} =>
                (sample.result.t = "list" /\ Arity(sample.result) = Arity(sample.given))
        /\ sample.given.t \in {"str", "int"} => sample.result = sample.given

\* truncate has been applied twice to a Vector of a tie and an int: the tie
\* is rounded, the int is as it was, and the second call changed nothing.
C15_Witness ==
    /\ sample.calls = 2
    /\ sample.given = VectorVal(<<FloatVal(12345), IntVal(42)>>)
    /\ sample.result = ListVal(<<FloatVal(12340), IntVal(42)>>)

----------------------------------------------------------------------------
(* C16: ticks do not overlap *)

\* C16: no refresh tick begins while an earlier one is in progress, waiting
\* in show_error included: at most one tick is in progress at any time.
C16_TicksNeverOverlap == Len(running) <= 1

----------------------------------------------------------------------------
(* C17: a search-text edit *)

\* The names of the buttons of a list, shown or hidden, in order.
Listed(list) == [i \in 1..Len(list) |-> list[i].text]

\* C17: right after filter_objects(text) the list shows exactly its entries
\* whose name contains text, case-insensitively, in the list's order, all of
\* them when text is empty; the selection, the entries listed and their order,
\* and the rows of the tabs are as before.
C17_FilterEdit ==
    [][last'.op = "filter_objects"
       => (/\ Shown(object_list')
                = SelectSeq(Listed(object_list),
                            LAMBDA n : Contains(lower(last'.arg), lower(n)))
           /\ last'.arg = <<>> => Shown(object_list') = Listed(object_list)
           /\ Listed(object_list') = Listed(object_list)
           /\ selected_object' = selected_object
           /\ tabs' = tabs)]_vars

\* "a" has been typed over a list of two: "Ab" is shown, and "B", selected
\* and presented, is hidden.
C17_Witness ==
    /\ last.op = "filter_objects"
    /\ last.arg = <<"a">>
    /\ Len(object_list) = 2
    /\ Shown(object_list) = << <<"A", "b">> >>
    /\ selected_object = <<"B">>
    /\ SomeRow(tabs)

----------------------------------------------------------------------------
(* C18: the display as a function of scene, search text and selection *)

\* Both windows have just run a tick in which nothing raised, on the same
\* scene, with the same search text and the same selection.
SameTick ==
    /\ TickedClean
    /\ twin.last.op = "refresh_properties"
    /\ twin.last.raised = <<>>
    /\ twin.scene = scene
    /\ twin.search_text = search_text
    /\ twin.selected_object = selected_object

\* C18: two windows that end a tick on the same polled scene, with the same
\* search text and the same selected name, show the same entries in the list
\* and hold the same rows in the tabs, whatever each went through before.
C18_DisplayIsFunction ==
    SameTick => (Shown(twin.object_list) = Shown(object_list) /\ twin.tabs = tabs)

----------------------------------------------------------------------------
(* C19: the commands and the display *)

PlaybackOps ==
    {"set_fps", "set_game_speed", "pause_game", "play_game", "step_frame",
     "toggle_physics_visualization", "toggle_mouse"}

\* C19: every playback command, forwarded, rejected or failed, leaves the
\* selection, the search text, the list and the rows of the tabs as they
\* were; toggle_physics_visualization forwards nothing to the engine.
C19_CommandsLeaveDisplay ==
    [][last'.op \in PlaybackOps
       => (/\ selected_object' = selected_object
           /\ search_text' = search_text
           /\ object_list' = object_list
           /\ tabs' = tabs
           /\ last'.op = "toggle_physics_visualization"
                => (last'.calls = <<>> /\ engine' = engine))]_vars

\* pause_game has stopped the game while "B", selected and presented, is
\* hidden by the search text "a".
C19_Witness ==
    /\ last.op = "pause_game"
    /\ engine.timeScale = 0
    /\ search_text = <<"a">>
    /\ selected_object = <<"B">>
    /\ Shown(object_list) = << <<"A", "b">> >>
    /\ tabs = PresentedFrom(scene, <<"B">>)

----------------------------------------------------------------------------
(* C20: who writes the selection *)

\* C20: self.selected_object is written by select_object only: a tick, a
\* search-text edit, a fault report and a change of the scene leave it as it
\* is, also while the object it names is gone.  So the first tick that finds
\* an object of that name in the scene again, nothing raising, presents it,
\* with no click in between.
C20_SelectionWrittenBySelectOnly ==
    [][/\ last'.op # "select_object" => selected_object' = selected_object
       /\ (/\ last'.op = "refresh_properties"
           /\ last'.raised = <<>>
           /\ selected_object # None
           /\ InScene(scene, selected_object))
          => tabs' = PresentedFrom(scene, selected_object)]_vars

\* A tick has found the selected name gone and kept it: the list, rebuilt,
\* no longer has its button, and the tabs still hold its rows.
C20_Witness ==
    /\ TickedClean
    /\ selected_object = <<"B">>
    /\ ~InScene(scene, selected_object)
    /\ Listed(object_list) = SceneNames(scene)
    /\ tabs = Presented["RigidBody"]

====
